---- MODULE Spec2Model ----
(***************************************************************************)
(* UPowerWrapper (upower_api/wrapper.py): an asyncio client of the UPower  *)
(* D-Bus service.  The model has one caller coroutine that runs the        *)
(* wrapper's query operations one await at a time, a connect() coroutine   *)
(* that races with it, the transport completing connects, and the remote   *)
(* service whose property values change between (and during) calls.        *)
(***************************************************************************)
EXTENDS Integers, Sequences, FiniteSets, TLC

VARIABLES
    bus,        \* self.bus: None or the MessageBus handle connect() stored
    transport,  \* state of every MessageBus object the client created
    conn,       \* the connect() coroutine: its position and its handle
    remote,     \* the remote service: device state code and value generation
    task        \* the caller's coroutine: operation, position, locals, result

vars == <<bus, transport, conn, remote, task>>

(* ---------------------------------------------------------------- bounds *)

\* connect() calls made in one behaviour (each creates a MessageBus)
MaxConnects == 2
\* times the remote service changes its property values
MaxGen == 1
\* raw state codes range over (0 - CodeSlack)..(6 + CodeSlack)
CodeSlack == 1

(* ------------------------------------------------------- class constants *)

None == "None"

UPOWER_PATH == "/org/freedesktop/UPower"
UPOWER_MANAGER_IFACE == "org.freedesktop.UPower"
UPOWER_DEVICE_IFACE == "org.freedesktop.UPower.Device"
WAKEUPS_PATH == "/org/freedesktop/UPower/Wakeups"
IFACE_WAKEUPS == "org.freedesktop.UPower.Wakeups"

\* the object path a caller passes as obj
DevicePath == "/org/freedesktop/UPower/devices/battery_BAT0"

\* STATE_MAP
STATE_MAP ==
    (0 :> "Unknown" @@ 1 :> "Charging" @@ 2 :> "Discharging" @@ 3 :> "Empty"
       @@ 4 :> "Fully Charged" @@ 5 :> "Pending Charge" @@ 6 :> "Pending Discharge")

Handles == 1..MaxConnects
Codes == (0 - CodeSlack)..(6 + CodeSlack)

(* ------------------------------------------------------------ operations *)

ManagerOps == {"get_devices", "get_display_device", "get_critical_action",
               "get_manager_status", "is_lid_present", "is_lid_closed",
               "on_battery", "is_present"}
WakeupOps == {"has_wakeup_capabilities", "get_wakeup_data", "get_wakeup_total"}
DeviceOps == {"get_device_percentage", "is_charging", "get_device_state",
              "get_full_device_information"}
Ops == ManagerOps \cup WakeupOps \cup DeviceOps

\* the path each operation hands to the resolver
OpPath(op) ==
    IF op \in ManagerOps THEN UPOWER_PATH
    ELSE IF op \in WakeupOps THEN WAKEUPS_PATH
    ELSE DevicePath

\* the interface name each operation hands to the resolver
OpIface(op) ==
    IF op \in ManagerOps THEN UPOWER_MANAGER_IFACE
    ELSE IF op \in WakeupOps THEN IFACE_WAKEUPS
    ELSE UPOWER_DEVICE_IFACE

\* operations that resolve through _get_wakeups_interface
UsesGracefulResolver(op) == op \in WakeupOps

\* the 38 awaited getters of get_full_device_information, in program order,
\* each with the local variable it is assigned to
SnapshotReads ==
    << <<"hasHistory", "get_has_history">>,
       <<"hasStatistics", "get_has_statistics">>,
       <<"isPresent", "get_is_present">>,
       <<"isRechargable", "get_is_rechargeable">>,
       <<"online", "get_online">>,
       <<"powersupply", "get_power_supply">>,
       <<"capacity", "get_capacity">>,
       <<"chargecycles", "get_charge_cycles">>,
       <<"energy", "get_energy">>,
       <<"energyempty", "get_energy_empty">>,
       <<"energyfull", "get_energy_full">>,
       <<"energyfulldesign", "get_energy_full_design">>,
       <<"energyrate", "get_energy_rate">>,
       <<"luminosity", "get_luminosity">>,
       <<"percentage", "get_percentage">>,
       <<"temperature", "get_temperature">>,
       <<"voltage", "get_voltage">>,
       <<"timetoempty", "get_time_to_empty">>,
       <<"timetofull", "get_time_to_full">>,
       <<"updatetime", "get_update_time">>,
       <<"iconname", "get_icon_name">>,
       <<"model", "get_model">>,
       <<"nativepath", "get_native_path">>,
       <<"serial", "get_serial">>,
       <<"vendor", "get_vendor">>,
       <<"state", "get_state">>,
       <<"technology", "get_technology">>,
       <<"battype", "get_type">>,
       <<"warninglevel", "get_warning_level">>,
       <<"batterylevel", "get_battery_level">>,
       <<"threshold_start", "get_charge_start_threshold">>,
       <<"threshold_end", "get_charge_end_threshold">>,
       <<"is_threshold_enabled", "get_charge_threshold_enabled">>,
       <<"is_threshold_supported", "get_charge_threshold_supported">>,
       <<"is_threshold_setting_supported", "get_charge_threshold_settings_supported">>,
       <<"voltage_min", "get_voltage_min_design">>,
       <<"voltage_max", "get_voltage_max_design">>,
       <<"capacity_level", "get_capacity_level">> >>

\* the awaited remote members of each operation, in program order
OpReads(op) ==
    CASE op = "get_devices" -> << <<"device_paths", "call_enumerate_devices">> >>
      [] op = "get_display_device" -> << <<"display_dev", "call_get_display_device">> >>
      [] op = "get_critical_action" -> << <<"crit_action", "call_get_critical_action">> >>
      [] op = "get_manager_status" ->
            << <<"on_battery", "get_on_battery">>,
               <<"lid_closed", "get_lid_is_closed">>,
               <<"daemon_ver", "get_daemon_version">>,
               <<"lid_present", "get_lid_is_present">> >>
      [] op = "get_device_percentage" -> << <<"return", "get_percentage">> >>
      [] op = "is_lid_present" -> << <<"return", "get_lid_is_present">> >>
      [] op = "is_lid_closed" -> << <<"return", "get_lid_is_closed">> >>
      [] op = "on_battery" -> << <<"return", "get_on_battery">> >>
      [] op = "is_present" -> << <<"return", "get_is_present">> >>
      [] op = "has_wakeup_capabilities" -> << <<"return", "get_has_capability">> >>
      [] op = "get_wakeup_data" -> << <<"return", "call_get_data">> >>
      [] op = "get_wakeup_total" -> << <<"return", "call_get_total">> >>
      [] op = "is_charging" -> << <<"state", "get_state">> >>
      [] op = "get_device_state" -> << <<"state", "get_state">> >>
      [] op = "get_full_device_information" -> SnapshotReads

(* ------------------------------------------------------ remote service *)

\* dbus_next names the accessor of a D-Bus member by its snake_case name:
\* property HasHistory is read by get_has_history, method GetData is
\* called by call_get_data.
MemberOf(getter) ==
    CASE getter = "get_has_history" -> "HasHistory"
      [] getter = "get_has_statistics" -> "HasStatistics"
      [] getter = "get_is_present" -> "IsPresent"
      [] getter = "get_is_rechargeable" -> "IsRechargeable"
      [] getter = "get_online" -> "Online"
      [] getter = "get_power_supply" -> "PowerSupply"
      [] getter = "get_capacity" -> "Capacity"
      [] getter = "get_charge_cycles" -> "ChargeCycles"
      [] getter = "get_energy" -> "Energy"
      [] getter = "get_energy_empty" -> "EnergyEmpty"
      [] getter = "get_energy_full" -> "EnergyFull"
      [] getter = "get_energy_full_design" -> "EnergyFullDesign"
      [] getter = "get_energy_rate" -> "EnergyRate"
      [] getter = "get_luminosity" -> "Luminosity"
      [] getter = "get_percentage" -> "Percentage"
      [] getter = "get_temperature" -> "Temperature"
      [] getter = "get_voltage" -> "Voltage"
      [] getter = "get_time_to_empty" -> "TimeToEmpty"
      [] getter = "get_time_to_full" -> "TimeToFull"
      [] getter = "get_update_time" -> "UpdateTime"
      [] getter = "get_icon_name" -> "IconName"
      [] getter = "get_model" -> "Model"
      [] getter = "get_native_path" -> "NativePath"
      [] getter = "get_serial" -> "Serial"
      [] getter = "get_vendor" -> "Vendor"
      [] getter = "get_state" -> "State"
      [] getter = "get_technology" -> "Technology"
      [] getter = "get_type" -> "Type"
      [] getter = "get_warning_level" -> "WarningLevel"
      [] getter = "get_battery_level" -> "BatteryLevel"
      [] getter = "get_charge_start_threshold" -> "ChargeStartThreshold"
      [] getter = "get_charge_end_threshold" -> "ChargeEndThreshold"
      [] getter = "get_charge_threshold_enabled" -> "ChargeThresholdEnabled"
      [] getter = "get_charge_threshold_supported" -> "ChargeThresholdSupported"
      [] getter = "get_charge_threshold_settings_supported" ->
            "ChargeThresholdSettingsSupported"
      [] getter = "get_voltage_min_design" -> "VoltageMinDesign"
      [] getter = "get_voltage_max_design" -> "VoltageMaxDesign"
      [] getter = "get_capacity_level" -> "CapacityLevel"
      [] getter = "get_on_battery" -> "OnBattery"
      [] getter = "get_lid_is_closed" -> "LidIsClosed"
      [] getter = "get_lid_is_present" -> "LidIsPresent"
      [] getter = "get_daemon_version" -> "DaemonVersion"
      [] getter = "get_has_capability" -> "HasCapability"
      [] getter = "call_enumerate_devices" -> "EnumerateDevices"
      [] getter = "call_get_display_device" -> "GetDisplayDevice"
      [] getter = "call_get_critical_action" -> "GetCriticalAction"
      [] getter = "call_get_data" -> "GetData"
      [] getter = "call_get_total" -> "GetTotal"

\* The value the service holds for a member while it is in state r.  A
\* member's value is tagged with the member's name and the generation, so
\* values of different members, and of one member at different times,
\* differ.  State is the raw integer code; the boolean members are booleans;
\* GetTotal is a count; GetData is a sequence.
RemoteValue(member, r) ==
    CASE member = "State" -> r.code
      [] member \in {"OnBattery", "LidIsPresent", "HasCapability"} -> (r.gen % 2 = 0)
      [] member \in {"LidIsClosed", "IsPresent"} -> (r.gen % 2 = 1)
      [] member = "GetTotal" -> r.gen + 1
      [] member = "GetData" -> << <<"wakeup", r.gen>> >>
      [] OTHER -> <<member, r.gen>>

(* ------------------------------------------------------- result values *)

Ok(v) == [ok |-> TRUE, val |-> v, err |-> None]
Err(e) == [ok |-> FALSE, val |-> None, err |-> e]
Pending == [ok |-> FALSE, val |-> None, err |-> "pending"]

\* index of the read that assigns local variable name in op
ReadIndex(op, name) ==
    CHOOSE i \in 1..Len(OpReads(op)) : OpReads(op)[i][1] = name

\* the value of local variable name once all the reads of op returned vals
Local(op, vals, name) == vals[ReadIndex(op, name)]

\* bool(x) of a D-Bus boolean
bool(x) == (x = TRUE)

\* int(x) of a D-Bus integer
int(x) == x

(* ------------------------------------------------- return expressions *)

information_table_swapped(vals) ==
    LET v(name) == Local("get_full_device_information", vals, name) IN
    [NativePath |-> v("nativepath"), Vendor |-> v("vendor"), Model |-> v("model"),
     Serial |-> v("serial"), UpdateTime |-> v("updatetime"), Type |-> v("battype"),
     PowerSupply |-> v("powersupply"), HasHistory |-> v("hasHistory"),
     HasStatistics |-> v("hasStatistics"), Online |-> v("online"),
     Energy |-> v("energy"), EnergyEmpty |-> v("energyempty"),
     EnergyFull |-> v("energyfulldesign"), EnergyFullDesign |-> v("energyfull"),
     EnergyRate |-> v("energyrate"), Voltage |-> v("voltage"),
     ChargeCycles |-> v("chargecycles"), Luminosity |-> v("luminosity"),
     TimeToEmpty |-> v("timetoempty"), TimeToFull |-> v("timetofull"),
     Percentage |-> v("percentage"), Temperature |-> v("temperature"),
     IsPresent |-> v("isPresent"), State |-> v("state"),
     IsRechargeable |-> v("isRechargable"), Capacity |-> v("capacity"),
     Technology |-> v("technology"), WarningLevel |-> v("warninglevel"),
     BatteryLevel |-> v("batterylevel"), IconName |-> v("iconname"),
     ChargeStartThreshold |-> v("threshold_start"),
     ChargeEndThreshold |-> v("threshold_end"),
     ChargeThresholdEnabled |-> v("is_threshold_enabled"),
     ChargeThresholdSupported |-> v("is_threshold_supported"),
     ChargeThresholdSettingsSupported |-> v("is_threshold_setting_supported"),
     VoltageMinDesign |-> v("voltage_min"), VoltageMaxDesign |-> v("voltage_max"),
     CapacityLevel |-> v("capacity_level")]

\* the dict literal get_full_device_information returns
information_table(vals) ==
    LET v(name) == Local("get_full_device_information", vals, name) IN
    [NativePath |-> v("nativepath"), Vendor |-> v("vendor"), Model |-> v("model"),
     Serial |-> v("serial"), UpdateTime |-> v("updatetime"), Type |-> v("battype"),
     PowerSupply |-> v("powersupply"), HasHistory |-> v("hasHistory"),
     HasStatistics |-> v("hasStatistics"), Online |-> v("online"),
     Energy |-> v("energy"), EnergyEmpty |-> v("energyempty"),
     EnergyFull |-> v("energyfull"), EnergyFullDesign |-> v("energyfulldesign"),
     EnergyRate |-> v("energyrate"), Voltage |-> v("voltage"),
     ChargeCycles |-> v("chargecycles"), Luminosity |-> v("luminosity"),
     TimeToEmpty |-> v("timetoempty"), TimeToFull |-> v("timetofull"),
     Percentage |-> v("percentage"), Temperature |-> v("temperature"),
     IsPresent |-> v("isPresent"), State |-> v("state"),
     IsRechargeable |-> v("isRechargable"), Capacity |-> v("capacity"),
     Technology |-> v("technology"), WarningLevel |-> v("warninglevel"),
     BatteryLevel |-> v("batterylevel"), IconName |-> v("iconname"),
     ChargeStartThreshold |-> v("threshold_start"),
     ChargeEndThreshold |-> v("threshold_end"),
     ChargeThresholdEnabled |-> v("is_threshold_enabled"),
     ChargeThresholdSupported |-> v("is_threshold_supported"),
     ChargeThresholdSettingsSupported |-> v("is_threshold_setting_supported"),
     VoltageMinDesign |-> v("voltage_min"), VoltageMaxDesign |-> v("voltage_max"),
     CapacityLevel |-> v("capacity_level")]

\* the dict get_manager_status returns
manager_status(vals) ==
    LET v(name) == Local("get_manager_status", vals, name) IN
    [on_battery |-> v("on_battery"), lid_closed |-> v("lid_closed"),
     daemon_ver |-> v("daemon_ver"), lid_present |-> v("lid_present")]

\* a lookup that falls back to the Unknown label instead of raising
StateLabel_defaulting(state) ==
    IF state \in DOMAIN STATE_MAP THEN Ok(STATE_MAP[state]) ELSE Ok(STATE_MAP[0])

\* self.STATE_MAP[state]: a key that is not in the dict raises KeyError
StateLabel(state) ==
    IF state \in DOMAIN STATE_MAP THEN Ok(STATE_MAP[state]) ELSE Err("KeyError")

\* what the operation returns (or raises) once all its reads returned vals
ReturnValue(op, vals) ==
    CASE op \in {"get_devices", "get_display_device", "get_critical_action",
                 "get_device_percentage", "has_wakeup_capabilities",
                 "get_wakeup_data", "get_wakeup_total"} -> Ok(vals[1])
      [] op = "get_manager_status" -> Ok(manager_status(vals))
      [] op \in {"is_lid_present", "is_lid_closed", "on_battery", "is_present"} ->
            Ok(bool(vals[1]))
      [] op = "is_charging" -> Ok(Local(op, vals, "state") = 1)
      [] op = "get_device_state" -> StateLabel(int(Local(op, vals, "state")))
      [] op = "get_full_device_information" -> Ok(information_table(vals))

\* what the operation does with an interface that is None (falsy)
NoInterface(op) ==
    CASE op = "has_wakeup_capabilities" -> Ok(FALSE)
      [] op = "get_wakeup_data" -> Ok(<<>>)
      [] op = "get_wakeup_total" -> Ok(0)
      [] op = "is_charging" -> Ok(FALSE)
      [] OTHER -> Err("AttributeError")

(* ------------------------------------------------ the caller's coroutine *)

\* self.bus = None
NoBus == 0

\* A coroutine that is not running.  Besides the coroutine's own state (op,
\* pc, iface, vals, result) the record keeps what the call did, for the
\* properties: the handle the connectivity check saw, the handle a connect()
\* was awaiting then (0: none), the introspections and remote calls it issued, how the
\* resolution ended, which read failed, and the remote generation at the call.
IdleTask ==
    [op |-> None, pc |-> "idle", iface |-> None, vals |-> <<>>, result |-> Pending,
     busAtCheck |-> NoBus, connAtCheck |-> 0, nIntrospect |-> 0,
     introBus |-> NoBus, introPath |-> None, nRemote |-> 0, resolve |-> "none",
     failedAt |-> 0, gen0 |-> 0]

\* the call ends: it returns a value or raises to the caller
Finish(t, res) == [t EXCEPT !.pc = "done", !.result = res]

\* issue the next awaited read on the resolved interface
IssueRead(t) == [t EXCEPT !.pc = "reading", !.nRemote = @ + 1]

\* the operation's body after the resolver returned t.iface
AfterResolve(t) ==
    IF t.iface = None THEN Finish(t, NoInterface(t.op)) ELSE IssueRead(t)

\* an except clause that names InterfaceNotFoundError alone
Caught_narrow(e) == e = "InterfaceNotFoundError"

\* except (InterfaceNotFoundError, Exception): every exception is caught
Caught(e) == TRUE

\* _get_interface raised e: _get_wakeups_interface turns it into None, every
\* other caller lets it propagate
ResolverRaised(t, e) ==
    IF UsesGracefulResolver(t.op) /\ Caught(e)
    THEN AfterResolve([t EXCEPT !.iface = None])
    ELSE Finish(t, Err(e))

\* a resolver that introspects without looking at self.bus
GetInterfaceEntry_unchecked(t, b) ==
    [t EXCEPT !.busAtCheck = b, !.pc = "introspecting", !.nIntrospect = @ + 1,
              !.introBus = b, !.introPath = OpPath(t.op)]

\* _get_interface up to its first await: the connectivity check, then the
\* introspection of the path is sent on self.bus
GetInterfaceEntry(t, b) ==
    IF b = NoBus
    THEN ResolverRaised([t EXCEPT !.busAtCheck = b, !.resolve = "notconnected"],
                        "Bus is not connected")
    ELSE [t EXCEPT !.busAtCheck = b, !.pc = "introspecting", !.nIntrospect = @ + 1,
                   !.introBus = b, !.introPath = OpPath(t.op)]

\* _get_interface after the introspection: the transport raised, or
\* proxy.get_interface raised InterfaceNotFoundError, or the interface is
\* returned to the operation
GetInterfaceReply(t, outcome) ==
    CASE outcome = "fault" -> ResolverRaised([t EXCEPT !.resolve = "fault"], "DBusError")
      [] outcome = "notfound" ->
            ResolverRaised([t EXCEPT !.resolve = "notfound"], "InterfaceNotFoundError")
      [] outcome = "ok" ->
            AfterResolve([t EXCEPT !.resolve = "ok", !.iface = OpIface(t.op)])

\* a read that answers from the values the service had at first
AwaitedValue_stale(getter, r) == RemoteValue(MemberOf(getter), [r EXCEPT !.gen = 0])

\* await interface.<getter>(): the value the service holds when it answers
AwaitedValue(getter, r) == RemoteValue(MemberOf(getter), r)

\* an awaited read returned v: it is the operation's next local; after the
\* last one the operation returns
ReadReturned(t, v) ==
    LET vals == Append(t.vals, v) IN
    IF Len(vals) = Len(OpReads(t.op))
    THEN Finish([t EXCEPT !.vals = vals], ReturnValue(t.op, vals))
    ELSE IssueRead([t EXCEPT !.vals = vals])

\* a snapshot that leaves its last field (CapacityLevel) None when that read fails
ReadRaised_partial(t, e) ==
    IF t.op = "get_full_device_information" /\ Len(t.vals) + 1 = Len(SnapshotReads)
    THEN ReadReturned([t EXCEPT !.failedAt = Len(t.vals) + 1], None)
    ELSE Finish([t EXCEPT !.failedAt = Len(t.vals) + 1], Err(e))

\* a read failure that the wakeups queries answer with their default
ReadRaised_defaulting(t, e) ==
    IF UsesGracefulResolver(t.op)
    THEN Finish([t EXCEPT !.failedAt = Len(t.vals) + 1], NoInterface(t.op))
    ELSE Finish([t EXCEPT !.failedAt = Len(t.vals) + 1], Err(e))

\* an awaited read raised e: no operation has a handler around its reads
ReadRaised(t, e) == Finish([t EXCEPT !.failedAt = Len(t.vals) + 1], Err(e))

(* --------------------------------------------------------------- connect *)

\* a connect() that stores the MessageBus before it awaits its connect
BusDuringConnect_eager(b, h) == h

\* self.bus while connect() awaits MessageBus(...).connect(): the assignment
\* has not happened yet
BusDuringConnect(b, h) == b

\* self.bus when the awaited connect of handle h is over: assigned if it
\* returned, untouched if it raised
BusAfterConnect(b, h, status) == IF status = "connected" THEN h ELSE b

(* --------------------------------------------------------------- actions *)

Init ==
    /\ bus = NoBus
    /\ transport = [h \in Handles |-> "unused"]
    /\ conn = [pc |-> "idle", h |-> 0]
    /\ remote \in [code : Codes, gen : {0}]
    /\ task = IdleTask

\* connect() is called: a MessageBus is created and its connect awaited
connect ==
    /\ conn.pc = "idle"
    /\ conn.h < MaxConnects
    /\ LET h == conn.h + 1 IN
        /\ transport' = [transport EXCEPT ![h] = "connecting"]
        /\ conn' = [pc |-> "awaiting", h |-> h]
        /\ bus' = BusDuringConnect(bus, h)
    /\ UNCHANGED <<remote, task>>

\* the transport finishes the handshake of a connecting MessageBus, or fails
TransportConnect ==
    /\ conn.pc = "awaiting"
    /\ transport[conn.h] = "connecting"
    /\ \E status \in {"connected", "failed"} :
          transport' = [transport EXCEPT ![conn.h] = status]
    /\ UNCHANGED <<bus, conn, remote, task>>

\* connect() resumes after its await
connect_resume ==
    /\ conn.pc = "awaiting"
    /\ transport[conn.h] # "connecting"
    /\ bus' = BusAfterConnect(bus, conn.h, transport[conn.h])
    /\ conn' = [conn EXCEPT !.pc = "idle"]
    /\ UNCHANGED <<transport, remote, task>>

\* the caller invokes an operation; it runs up to its first await
Call ==
    /\ task.pc = "idle"
    /\ \E op \in Ops :
          task' = GetInterfaceEntry(
                      [IdleTask EXCEPT !.op = op, !.gen0 = remote.gen,
                                       !.connAtCheck =
                                           IF conn.pc = "awaiting" THEN conn.h ELSE 0],
                      bus)
    /\ UNCHANGED <<bus, transport, conn, remote>>

\* the introspection is answered and _get_interface finishes
IntrospectReply ==
    /\ task.pc = "introspecting"
    /\ \E outcome \in {"ok", "fault", "notfound"} :
          task' = GetInterfaceReply(task, outcome)
    /\ UNCHANGED <<bus, transport, conn, remote>>

\* the awaited read is answered with the service's current value
ReadReply ==
    /\ task.pc = "reading"
    /\ task' = ReadReturned(task,
                   AwaitedValue(OpReads(task.op)[Len(task.vals) + 1][2], remote))
    /\ UNCHANGED <<bus, transport, conn, remote>>

\* the awaited read fails (the property is missing, the service is gone)
ReadFault ==
    /\ task.pc = "reading"
    /\ task' = ReadRaised(task, "DBusError")
    /\ UNCHANGED <<bus, transport, conn, remote>>

\* the caller takes the result; the coroutine is gone
Return ==
    /\ task.pc = "done"
    /\ task' = IdleTask
    /\ UNCHANGED <<bus, transport, conn, remote>>

\* the service's properties take new values
RemoteChange ==
    /\ remote.gen < MaxGen
    /\ \E code \in Codes : remote' = [code |-> code, gen |-> remote.gen + 1]
    /\ UNCHANGED <<bus, transport, conn, task>>

\* The client from its construction: connect() racing with the caller's
\* queries, against a service whose values stay as they are.
Next ==
    \/ connect
    \/ TransportConnect
    \/ connect_resume
    \/ Call
    \/ IntrospectReply
    \/ ReadReply
    \/ ReadFault
    \/ Return

Spec == Init /\ [][Next]_vars

\* A session whose connect() has returned.
InitConnected ==
    /\ bus = 1
    /\ transport = [h \in Handles |-> IF h = 1 THEN "connected" ELSE "unused"]
    /\ conn = [pc |-> "idle", h |-> 1]
    /\ remote \in [code : Codes, gen : {0}]
    /\ task = IdleTask

\* The connected client against a service whose values change while the
\* caller's queries run.
NextLive ==
    \/ Call
    \/ IntrospectReply
    \/ ReadReply
    \/ ReadFault
    \/ Return
    \/ RemoteChange

SpecLive == InitConnected /\ [][NextLive]_vars

(* ------------------------------------------------------------ properties *)

NotConnectedError == "Bus is not connected"

\* the call has ended and its result is with the caller
Done(op) == task.pc = "done" /\ task.op = op

\* C1: an operation on the manager interface whose connectivity check found
\* no connection handle has, from then on, failed with the 'Bus is not
\* connected' error, having issued no introspection and no remote call.
C1_ManagerOpsNeedConnection ==
    (task.pc # "idle" /\ task.op \in ManagerOps /\ task.busAtCheck = NoBus) =>
        /\ task.pc = "done"
        /\ ~task.result.ok
        /\ task.result.err = NotConnectedError
        /\ task.nIntrospect = 0
        /\ task.nRemote = 0

C1_Witness ==
    /\ Done("get_manager_status")
    /\ task.busAtCheck = NoBus
    /\ bus = NoBus
    /\ task.result.err = NotConnectedError

\* C2: when the resolution of the wakeups interface has failed, whatever the
\* failure, has_wakeup_capabilities returns False, get_wakeup_data returns
\* an empty sequence and get_wakeup_total returns 0; none of them raises.
C2_WakeupsDefaults ==
    (task.pc = "done" /\ task.op \in WakeupOps /\ task.resolve # "ok") =>
        /\ task.result.ok
        /\ task.nRemote = 0
        /\ CASE task.op = "has_wakeup_capabilities" -> task.result.val = FALSE
             [] task.op = "get_wakeup_data" -> task.result.val = <<>>
             [] task.op = "get_wakeup_total" -> task.result.val = 0

C2_Witness ==
    /\ Done("get_wakeup_total")
    /\ task.resolve = "fault"
    /\ task.result.ok
    /\ task.result.val = 0

\* the labels the device-state enumeration documents for the codes 0..6
DocumentedLabel(c) ==
    CASE c = 0 -> "Unknown"
      [] c = 1 -> "Charging"
      [] c = 2 -> "Discharging"
      [] c = 3 -> "Empty"
      [] c = 4 -> "Fully Charged"
      [] c = 5 -> "Pending Charge"
      [] c = 6 -> "Pending Discharge"

\* C3: get_device_state on a resolvable device whose state read returned code
\* c returns exactly the documented label of c when c is in 0..6, and fails
\* when c is any other integer.
C3_StateLabels ==
    (Done("get_device_state") /\ task.resolve = "ok" /\ task.failedAt = 0) =>
        LET c == task.vals[1] IN
        /\ c = remote.code
        /\ IF c \in 0..6
           THEN task.result.ok /\ task.result.val = DocumentedLabel(c)
           ELSE ~task.result.ok

C3_Witness ==
    /\ Done("get_device_state")
    /\ task.resolve = "ok"
    /\ task.failedAt = 0
    /\ task.vals[1] = 7
    /\ ~task.result.ok

\* C4 (as claimed): is_charging returns true exactly when the raw state code
\* is 1, and returns false, without failing, when the device interface cannot
\* be resolved.
C4_IsChargingAsClaimed ==
    Done("is_charging") =>
        /\ (task.resolve = "ok" /\ task.failedAt = 0) =>
               (task.result.ok /\ task.result.val = (task.vals[1] = 1))
        /\ (task.resolve \in {"fault", "notfound"}) =>
               (task.result.ok /\ task.result.val = FALSE)

\* C5: get_full_device_information is all-or-nothing: when its resolution or
\* any one of its reads failed, the call fails, and a call that returns a
\* record has made all of its reads successfully.
C5_SnapshotAllOrNothing ==
    Done("get_full_device_information") =>
        /\ (task.resolve # "ok" \/ task.failedAt # 0) => ~task.result.ok
        /\ task.result.ok =>
               /\ task.resolve = "ok"
               /\ task.failedAt = 0
               /\ Len(task.vals) = Len(SnapshotReads)
               /\ Cardinality(DOMAIN task.result.val) = Len(SnapshotReads)

C5_Witness ==
    /\ Done("get_full_device_information")
    /\ task.resolve = "ok"
    /\ task.failedAt = 20
    /\ Len(task.vals) = 19
    /\ ~task.result.ok

\* C6 (as claimed): an operation whose connectivity check found no connection
\* handle fails; none returns a value.
C6_EveryOpNeedsConnectionAsClaimed ==
    (task.pc # "idle" /\ task.busAtCheck = NoBus) =>
        (task.pc = "done" /\ ~task.result.ok)

\* the properties of org.freedesktop.UPower.Device the snapshot documents
DeviceProperties ==
    {"NativePath", "Vendor", "Model", "Serial", "UpdateTime", "Type", "PowerSupply",
     "HasHistory", "HasStatistics", "Online", "Energy", "EnergyEmpty", "EnergyFull",
     "EnergyFullDesign", "EnergyRate", "Voltage", "ChargeCycles", "Luminosity",
     "TimeToEmpty", "TimeToFull", "Percentage", "Temperature", "IsPresent", "State",
     "IsRechargeable", "Capacity", "Technology", "WarningLevel", "BatteryLevel",
     "IconName", "ChargeStartThreshold", "ChargeEndThreshold",
     "ChargeThresholdEnabled", "ChargeThresholdSupported",
     "ChargeThresholdSettingsSupported", "VoltageMinDesign", "VoltageMaxDesign",
     "CapacityLevel"}

\* C7: a snapshot returned by get_full_device_information while the remote
\* values did not change since the call began has exactly the 38 documented
\* fields, each holding the remote property of the same name; its Percentage
\* is what get_device_percentage returns and its State is the raw state code.
C7_SnapshotFieldsMatchRemote ==
    (Done("get_full_device_information") /\ task.result.ok /\ task.gen0 = remote.gen) =>
        LET rec == task.result.val IN
        /\ DOMAIN rec = DeviceProperties
        /\ Cardinality(DeviceProperties) = 38
        /\ \A f \in DeviceProperties : rec[f] = RemoteValue(f, remote)
        /\ rec.Percentage =
               ReturnValue("get_device_percentage",
                           <<AwaitedValue("get_percentage", remote)>>).val
        /\ rec.State = remote.code

C7_Witness ==
    /\ Done("get_full_device_information")
    /\ task.result.ok
    /\ task.gen0 = remote.gen
    /\ remote.gen = 1
    /\ task.result.val.EnergyFull = <<"EnergyFull", 1>>

\* C8: the connection handle is visible only once its transport connect has
\* completed successfully: self.bus is never a handle that is connecting or
\* failed, no introspection is issued on such a handle, a query that checks
\* connectivity while a connect() is in flight neither sees nor uses the
\* handle being connected, and while the first connect() is in flight it is
\* treated as not connected.
C8_HandleVisibleOnlyWhenConnected ==
    /\ bus # NoBus => transport[bus] = "connected"
    /\ task.introBus # NoBus => transport[task.introBus] = "connected"
    /\ (task.pc # "idle" /\ task.connAtCheck # 0) =>
           /\ task.busAtCheck # task.connAtCheck
           /\ task.introBus # task.connAtCheck
           /\ task.connAtCheck = 1 =>
                  (task.resolve = "notconnected" /\ task.nIntrospect = 0)

C8_Witness ==
    /\ task.pc = "done"
    /\ task.connAtCheck = 1
    /\ task.resolve = "notconnected"
    /\ conn.pc = "awaiting"
    /\ transport[conn.h] = "connected"
    /\ bus = NoBus

\* the getter the coroutine is awaiting
AwaitedGetter == OpReads(task.op)[Len(task.vals) + 1][2]

\* C9: the client caches nothing.  On a connected session every call issues
\* its own introspection of its target path on the session's handle; every
\* read that returns yields the value the service holds at that moment; a
\* single-read query returns that value; a call that has ended issued one
\* remote call per read it made; a returned call leaves nothing behind; and
\* no step of a query changes the connection handle.
C9_NoCaching ==
    [][ /\ (task' # task) => (bus' = bus)
        /\ (task.pc = "idle" /\ task'.pc # "idle") =>
               /\ task'.nIntrospect = 1
               /\ task'.introPath = OpPath(task'.op)
               /\ task'.introBus = bus
        /\ (task.pc = "reading" /\ Len(task'.vals) = Len(task.vals) + 1) =>
               task'.vals[Len(task'.vals)] = RemoteValue(MemberOf(AwaitedGetter), remote)
        /\ (task.pc = "reading" /\ task'.pc = "done" /\ task'.result.ok
                /\ task.op = "get_device_percentage") =>
               task'.result.val = <<"Percentage", remote.gen>>
        /\ (task'.pc = "done") =>
               task'.nRemote = Len(task'.vals) + (IF task'.failedAt # 0 THEN 1 ELSE 0)
        /\ (task.pc = "done" /\ task'.pc # "done") => task' = IdleTask
      ]_vars

C9_Witness ==
    /\ Done("get_device_percentage")
    /\ task.result.ok
    /\ task.gen0 = 0
    /\ task.result.val = <<"Percentage", 1>>
    /\ task.nIntrospect = 1
    /\ task.nRemote = 1

\* C10: when the wakeups interface resolved and the remote call that follows
\* failed, has_wakeup_capabilities, get_wakeup_data and get_wakeup_total fail
\* with that error; none returns its default.
C10_WakeupCallFailurePropagates ==
    (task.pc = "done" /\ task.op \in WakeupOps /\ task.resolve = "ok"
        /\ task.failedAt # 0) =>
        (~task.result.ok /\ task.result.err = "DBusError")

C10_Witness ==
    /\ Done("has_wakeup_capabilities")
    /\ task.resolve = "ok"
    /\ task.failedAt = 1
    /\ ~task.result.ok

====
